---- MODULE Spec2Model ----
(***************************************************************************)
(* Model of scripts/lint-linkcheck.mjs: class BrokenLinkChecker.          *)
(*                                                                         *)
(* A JavaScript string is a sequence of symbols.  A symbol is one          *)
(* character ("/", "#", "x", "X", " "), a percent escape ("%78"), or a     *)
(* run of characters that the code only ever handles as a unit (a scheme   *)
(* with its "//", a host label, a path segment).  Splitting, prefix tests, *)
(* concatenation and decoding are computed on these sequences.             *)
(***************************************************************************)
EXTENDS Naturals, Sequences, FiniteSets

VARIABLES
    sitemapFile,     \* dist/sitemap.xml: [exists, locs], locs the <loc> texts in document order
    htmlFiles,       \* the rendered pages: file path -> document (a sequence of elements)
    sourceFiles,     \* the set of existing files below pageSourceDir
    annotateOutput,  \* this.annotateOutput
    pc,              \* position of run()
    error,           \* the exception that ended run(), "none" while there is none
    pagePathnames,   \* run(): const pagePathnames
    idx,             \* parsePages(): index of the forEach over pathnames
    pages,           \* the page index, an object in insertion order: sequence of page records
    pi,              \* findBrokenLinks(): index of the forEach over Object.values(pages)
    li,              \* findBrokenLinks(): index of the forEach over page.linkHrefs
    brokenLinks,     \* findBrokenLinks(): var brokenLinks, then run()'s const brokenLinks
    stdout,          \* the lines written with console.log
    annotations,     \* the calls of core.error
    exitCode         \* the exit code of the process

vars == <<sitemapFile, htmlFiles, sourceFiles, annotateOutput, pc, error, pagePathnames,
          idx, pages, pi, li, brokenLinks, stdout, annotations, exitCode>>

inputs == <<sitemapFile, htmlFiles, sourceFiles, annotateOutput>>

----------------------------------------------------------------------------
(* Bounds of the model *)

MaxLocs == 3
MaxElements == 2

----------------------------------------------------------------------------
(* Sequences as strings and arrays *)

Range(s) == { s[i] : i \in 1..Len(s) }

Take(s, n) == SubSeq(s, 1, n)

Drop(s, n) == SubSeq(s, n + 1, Len(s))

Map(s, f(_)) == [ i \in 1..Len(s) |-> f(s[i]) ]

\* String.prototype.indexOf for one symbol, 1-based; 0 when absent
IndexOf(s, c) ==
    IF \E i \in 1..Len(s) : s[i] = c
    THEN CHOOSE i \in 1..Len(s) : s[i] = c /\ \A j \in 1..(i - 1) : s[j] # c
    ELSE 0

LastIndexOf(s, c) ==
    IF \E i \in 1..Len(s) : s[i] = c
    THEN CHOOSE i \in 1..Len(s) : s[i] = c /\ \A j \in (i + 1)..Len(s) : s[j] # c
    ELSE 0

\* String.prototype.startsWith
StartsWith(s, p) == Len(p) <= Len(s) /\ Take(s, Len(p)) = p

\* String.prototype.endsWith('/')
EndsWithSlash(s) == Len(s) > 0 /\ s[Len(s)] = "/"

\* Array.prototype.includes
Includes(arr, v) == \E i \in 1..Len(arr) : arr[i] = v

\* the positions and values of the first occurrences
UniqueIdx(arr) ==
    SelectSeq([ i \in 1..Len(arr) |-> <<i, arr[i]>> ],
              LAMBDA e : \A j \in 1..(e[1] - 1) : arr[j] # e[2])

\* mutant of Unique: a value keeps the place of its last occurrence
UniqueKeepLast(arr) ==
    Map(SelectSeq([ i \in 1..Len(arr) |-> <<i, arr[i]>> ],
                  LAMBDA e : \A j \in (e[1] + 1)..Len(arr) : arr[j] # e[2]),
        LAMBDA e : e[2])

\* [...new Set(arr)]: the distinct values in order of first occurrence
Unique(arr) == Map(UniqueIdx(arr), LAMBDA e : e[2])

\* the JavaScript value undefined
Undefined == <<"<undefined>">>

\* String(v), as the URL constructor converts its first argument
ToString(v) == IF v = Undefined THEN <<"undefined">> ELSE v

\* lower case of a symbol (the regular expression's i flag, the URL parser's host and scheme)
LowerSym(c) ==
    CASE c = "HTTPS://" -> "https://"
      [] c = "DOCS.ASTRO.BUILD" -> "docs.astro.build"
      [] c = "X" -> "x"
      [] OTHER -> c

Lower(s) == Map(s, LowerSym)

----------------------------------------------------------------------------
(* Configuration: the constructor call at the end of the script *)

baseUrl == <<"https://", "docs.astro.build">>

buildOutputDir == <<".", "/", "dist">>

pageSourceDir == <<".", "/", "src", "/", "pages">>

----------------------------------------------------------------------------
(* path.join, fs *)

RECURSIVE JoinSegments(_)
JoinSegments(segs) ==
    IF Len(segs) = 0 THEN <<>>
    ELSE IF Len(segs) = 1 THEN segs
    ELSE <<segs[1], "/">> \o JoinSegments(Tail(segs))

\* path.join(a, b, c): the parts joined with "/" and normalized; empty and "."
\* segments and repeated or trailing separators disappear (a segment is one symbol)
PathJoin(a, b, c) ==
    LET joined == a \o <<"/">> \o b \o <<"/">> \o c
        segs == SelectSeq(joined, LAMBDA x : x # "/" /\ x # ".")
    IN  IF Len(segs) = 0 THEN <<".">> ELSE JoinSegments(segs)

\* fs.existsSync on the build output
HtmlExists(filePath) == filePath \in DOMAIN htmlFiles

----------------------------------------------------------------------------
(* new URL(input, base) *)

InvalidURL ==
    [ok |-> FALSE, scheme |-> "", host |-> <<>>, path |-> <<>>,
     hasFragment |-> FALSE, fragment |-> <<>>]

SchemeSymbols == {"https://", "HTTPS://"}

\* the fragment percent-encode set holds the space
EncodeFragmentSym(c) == IF c = " " THEN "%20" ELSE c

\* everything before the first "#", and the fragment after it
BeforeFragment(s) == IF IndexOf(s, "#") = 0 THEN s ELSE Take(s, IndexOf(s, "#") - 1)

HasFragment(s) == IndexOf(s, "#") # 0

FragmentOf(s) ==
    IF IndexOf(s, "#") = 0 THEN <<>> ELSE Map(Drop(s, IndexOf(s, "#")), EncodeFragmentSym)

\* the authority runs up to the next "/"; what follows is the path, "/" when empty
AuthorityOf(s) == IF IndexOf(s, "/") = 0 THEN s ELSE Take(s, IndexOf(s, "/") - 1)

PathAfterAuthority(s) == IF IndexOf(s, "/") = 0 THEN <<"/">> ELSE Drop(s, IndexOf(s, "/") - 1)

\* an absolute URL string: scheme, authority, path, fragment; an empty host is a failure
ParseAbsolute(s) ==
    LET rest == Tail(BeforeFragment(s))
    IN  IF Len(AuthorityOf(rest)) = 0 THEN InvalidURL
        ELSE [ok |-> TRUE, scheme |-> LowerSym(s[1]), host |-> Lower(AuthorityOf(rest)),
              path |-> PathAfterAuthority(rest),
              hasFragment |-> HasFragment(s), fragment |-> FragmentOf(s)]

\* the base path without its last segment
DirectoryOf(path) == Take(path, LastIndexOf(path, "/"))

\* a relative reference resolved against a parsed base
ParseRelative(s, base) ==
    LET rest == BeforeFragment(s)
        same == [ok |-> TRUE, scheme |-> base.scheme, host |-> base.host,
                 path |-> base.path, hasFragment |-> HasFragment(s), fragment |-> FragmentOf(s)]
    IN  IF Len(rest) = 0
        THEN \* fragment-only or empty reference: the base without its own fragment
             same
        ELSE IF Len(rest) >= 2 /\ rest[1] = "/" /\ rest[2] = "/"
        THEN \* scheme-relative
             IF Len(AuthorityOf(Drop(rest, 2))) = 0 THEN InvalidURL
             ELSE [same EXCEPT !.host = Lower(AuthorityOf(Drop(rest, 2))),
                               !.path = PathAfterAuthority(Drop(rest, 2))]
        ELSE IF rest[1] = "/"
        THEN \* path-absolute
             [same EXCEPT !.path = rest]
        ELSE \* path-relative
             [same EXCEPT !.path = DirectoryOf(base.path) \o rest]

\* new URL(input, base); ok = FALSE stands for the TypeError it throws
NewURL(input, base) ==
    LET s == ToString(input)
        b == ParseAbsolute(base)
    IN  IF Len(s) > 0 /\ s[1] \in SchemeSymbols THEN ParseAbsolute(s)
        ELSE IF ~b.ok THEN InvalidURL
        ELSE ParseRelative(s, b)

\* url.href
UrlHref(url) ==
    <<url.scheme>> \o url.host \o url.path
        \o (IF url.hasFragment THEN <<"#">> \o url.fragment ELSE <<>>)

\* url.pathname
UrlPathname(url) == url.path

\* url.hash: empty for a missing and for an empty fragment
UrlHash(url) == IF Len(url.fragment) = 0 THEN <<>> ELSE <<"#">> \o url.fragment

----------------------------------------------------------------------------
(* decodeURIComponent *)

MalformedEscapes == {"%zz", "%"}

DecodeSym(c) ==
    CASE c = "%78" -> "x"
      [] c = "%58" -> "X"
      [] c = "%20" -> " "
      [] OTHER -> c

\* TRUE when decodeURIComponent throws a URIError
DecodeThrows(s) == \E i \in 1..Len(s) : s[i] \in MalformedEscapes

DecodeURIComponent(s) == Map(s, DecodeSym)

----------------------------------------------------------------------------
(* pathnameToHref, pathnameToHtmlFilePath, pathnameToSourceFilePath *)

pathnameToHref(pathname) == UrlHref(NewURL(pathname, baseUrl))

pathnameToHtmlFilePath(pathname) == PathJoin(buildOutputDir, pathname, <<"index.html">>)

possiblePaths(pathname) ==
    << PathJoin(pageSourceDir, pathname, <<".">>) \o <<".md">>,
       PathJoin(pageSourceDir, pathname, <<"index.md">>) >>

\* possiblePaths.find(fs.existsSync): the first existing candidate, or undefined
pathnameToSourceFilePath(pathname) ==
    LET found == SelectSeq(possiblePaths(pathname), LAMBDA p : p \in sourceFiles)
    IN  IF Len(found) = 0 THEN Undefined ELSE found[1]

----------------------------------------------------------------------------
(* getPagePathnamesFromSitemap *)

\* one <loc> text against <loc>${baseUrl}(/.*?)</loc> with the i flag; the symbols of
\* baseUrl match themselves up to letter case, and the capture starts at the next "/"
LocMatches(loc) ==
    /\ Len(loc) > Len(baseUrl)
    /\ Lower(Take(loc, Len(baseUrl))) = Lower(baseUrl)
    /\ loc[Len(baseUrl) + 1] = "/"

\* the capture group m[1]
LocCapture(loc) == Drop(loc, Len(baseUrl))

SitemapPathnames(locs) == Unique(Map(SelectSeq(locs, LocMatches), LocCapture))

----------------------------------------------------------------------------
(* parsePage: what it extracts from a document *)

Anchors(dom) == SelectSeq(dom, LAMBDA el : el.tag = "a")

\* [...new Set(anchors.map(el => el.attribs.href))]
LinkHrefs(dom) == Unique(Map(Anchors(dom), LAMBDA el : el.href))

AnchorNames(dom) ==
    SelectSeq(Map(Anchors(dom), LAMBDA el : el.name), LAMBDA name : name # Undefined)

Ids(dom) == Map(SelectSeq(dom, LAMBDA el : el.id # Undefined), LAMBDA el : el.id)

Hashes(dom) == Map(AnchorNames(dom) \o Ids(dom), LAMBDA name : <<"#">> \o name)

PageRecord(pathname) ==
    [pathname |-> pathname,
     href |-> pathnameToHref(pathname),
     htmlFilePath |-> pathnameToHtmlFilePath(pathname),
     sourceFilePath |-> pathnameToSourceFilePath(pathname),
     linkHrefs |-> LinkHrefs(htmlFiles[pathnameToHtmlFilePath(pathname)]),
     hashes |-> Hashes(htmlFiles[pathnameToHtmlFilePath(pathname)])]

----------------------------------------------------------------------------
(* the page index: a plain object, its keys in insertion order *)

HasKey(obj, key) == \E i \in 1..Len(obj) : obj[i].pathname = key

\* pages[key] of a present key
Lookup(obj, key) == obj[CHOOSE i \in 1..Len(obj) : obj[i].pathname = key]

\* pages[key] = page: a present key keeps its place, a new key goes last
Assign(obj, key, page) ==
    IF HasKey(obj, key)
    THEN [ i \in 1..Len(obj) |-> IF obj[i].pathname = key THEN page ELSE obj[i] ]
    ELSE Append(obj, page)

----------------------------------------------------------------------------
(* findBrokenLinks: the check of one link *)

\* !url.href.startsWith(this.baseUrl)
IsExternal(url) == ~StartsWith(UrlHref(url), baseUrl)

\* url.pathname, with "/" appended unless it ends with one
LinkPathname(url) ==
    IF EndsWithSlash(UrlPathname(url)) THEN UrlPathname(url) ELSE UrlPathname(url) \o <<"/">>

\* !pages[linkPathname]
IsMissingPage(pgs, url) == ~HasKey(pgs, LinkPathname(url))

\* url.hash && decodeURIComponent(url.hash)
DecodedHash(url) == IF Len(UrlHash(url)) = 0 THEN <<>> ELSE DecodeURIComponent(UrlHash(url))

\* mutant of HashIncluded: the comparison ignores letter case
HashIncludedIgnoreCase(hashes, decodedHash) ==
    \E i \in 1..Len(hashes) : Lower(hashes[i]) = Lower(decodedHash)

\* linkedPage.hashes.includes(decodedHash)
HashIncluded(hashes, decodedHash) == Includes(hashes, decodedHash)

\* mutant of IsMissingHash: the fragment is judged without the !isMissingPage guard
IsMissingHashUnguarded(pgs, url) ==
    /\ Len(DecodedHash(url)) > 0
    /\ \/ IsMissingPage(pgs, url)
       \/ ~Includes(Lookup(pgs, LinkPathname(url)).hashes, DecodedHash(url))

\* the truth value of !isMissingPage && (decodedHash && !linkedPage.hashes.includes(decodedHash))
IsMissingHash(pgs, url) ==
    /\ ~IsMissingPage(pgs, url)
    /\ Len(DecodedHash(url)) > 0
    /\ ~HashIncluded(Lookup(pgs, LinkPathname(url)).hashes, DecodedHash(url))

\* the entry pushed for a broken link; page refers to the page object by its key
BrokenLink(pgs, page, url) ==
    [page |-> page.pathname,
     href |-> UrlHref(url),
     isMissingPage |-> IsMissingPage(pgs, url),
     isMissingHash |-> IsMissingHash(pgs, url)]

\* mutant of PushIfBroken: unshift instead of push
UnshiftIfBroken(results, pgs, page, url) ==
    IF IsExternal(url) THEN results
    ELSE IF IsMissingPage(pgs, url) \/ IsMissingHash(pgs, url)
    THEN <<BrokenLink(pgs, page, url)>> \o results
    ELSE results

\* brokenLinks after the callback has run for one link whose URL parsed and decoded
PushIfBroken(results, pgs, page, url) ==
    IF IsExternal(url) THEN results
    ELSE IF IsMissingPage(pgs, url) \/ IsMissingHash(pgs, url)
    THEN Append(results, BrokenLink(pgs, page, url))
    ELSE results

----------------------------------------------------------------------------
(* outputResult, outputBrokenLink *)

Line(kind, text, counts) == [kind |-> kind, text |-> text, counts |-> counts]

\* lastPage !== brokenLink.page at entry i of the forEach
PageChanges(results, i) == i = 1 \/ results[i - 1].page # results[i].page

LinkLine(brokenLink) ==
    Line(IF brokenLink.isMissingHash THEN "prefixHash" ELSE "prefixPage", brokenLink.href, <<>>)

RECURSIVE ReportLines(_, _)
ReportLines(results, i) ==
    IF i > Len(results) THEN <<>>
    ELSE (IF PageChanges(results, i) THEN <<Line("header", results[i].page, <<>>)>> ELSE <<>>)
         \o <<LinkLine(results[i])>>
         \o ReportLines(results, i + 1)

BrokenHashCount(results) == Len(SelectSeq(results, LAMBDA b : b.isMissingHash))

SummaryLine(results) ==
    Line("summary", <<>>,
         <<Len(results), Len(results) - BrokenHashCount(results), BrokenHashCount(results)>>)

\* everything outputResult prints
Report(results) ==
    IF Len(results) > 0
    THEN ReportLines(results, 1)
         \o <<Line("blank", <<>>, <<>>), SummaryLine(results), Line("blank", <<>>, <<>>)>>
    ELSE <<Line("none", <<>>, <<>>), Line("blank", <<>>, <<>>)>>

\* the core.error call of outputBrokenLink
Annotation(pgs, brokenLink) ==
    [message |-> brokenLink.href,
     title |-> <<IF brokenLink.isMissingHash THEN "Broken fragment" ELSE "404 link",
                 brokenLink.page>>,
     file |-> Lookup(pgs, brokenLink.page).sourceFilePath]

AnnotationsFor(annotate, pgs, results) ==
    IF annotate THEN [ i \in 1..Len(results) |-> Annotation(pgs, results[i]) ] ELSE <<>>

\* process.exitCode after outputResult
ExitCodeAfterOutput(results, code) == IF Len(results) > 0 THEN 1 ELSE code

----------------------------------------------------------------------------
(* The run *)

\* mutant of Throw: the exception is caught, the exit code set, and the run goes on
ThrowCaught(kind) ==
    /\ pc' = "findBrokenLinks"
    /\ error' = kind
    /\ exitCode' = 1

\* an exception nobody catches: the process ends with exit code 1
Throw(kind) ==
    /\ pc' = "error"
    /\ error' = kind
    /\ exitCode' = 1

GetPagePathnamesFromSitemap ==
    /\ pc = "getPagePathnamesFromSitemap"
    /\ IF ~sitemapFile.exists
       THEN /\ Throw("ENOENT")
            /\ UNCHANGED pagePathnames
       ELSE /\ pagePathnames' = SitemapPathnames(sitemapFile.locs)
            /\ pc' = "parsePages"
            /\ UNCHANGED <<error, exitCode>>
    /\ UNCHANGED <<inputs, idx, pages, pi, li, brokenLinks, stdout, annotations>>

\* one call of parsePage from the forEach of parsePages
ParsePage ==
    /\ pc = "parsePages"
    /\ idx <= Len(pagePathnames)
    /\ IF ~HtmlExists(pathnameToHtmlFilePath(pagePathnames[idx]))
       THEN /\ Throw("Failed to find HTML file")
            /\ UNCHANGED <<idx, pages, stdout>>
       ELSE /\ pages' = Assign(pages, pagePathnames[idx], PageRecord(pagePathnames[idx]))
            /\ stdout' = Append(stdout, Line("trace", pagePathnames[idx], <<>>))
            /\ idx' = idx + 1
            /\ UNCHANGED <<pc, error, exitCode>>
    /\ UNCHANGED <<inputs, pagePathnames, pi, li, brokenLinks, annotations>>

ParsePagesReturn ==
    /\ pc = "parsePages"
    /\ idx > Len(pagePathnames)
    /\ pc' = "findBrokenLinks"
    /\ UNCHANGED <<inputs, error, pagePathnames, idx, pages, pi, li, brokenLinks, stdout,
                   annotations, exitCode>>

\* the callback of page.linkHrefs.forEach for one link
CheckLink ==
    /\ pc = "findBrokenLinks"
    /\ pi <= Len(pages)
    /\ li <= Len(pages[pi].linkHrefs)
    /\ LET page == pages[pi]
           url == NewURL(page.linkHrefs[li], page.href)
       IN  IF ~url.ok
           THEN /\ Throw("TypeError")
                /\ UNCHANGED <<li, brokenLinks>>
           ELSE IF ~IsExternal(url) /\ DecodeThrows(UrlHash(url))
           THEN /\ Throw("URIError")
                /\ UNCHANGED <<li, brokenLinks>>
           ELSE /\ brokenLinks' = PushIfBroken(brokenLinks, pages, page, url)
                /\ li' = li + 1
                /\ UNCHANGED <<pc, error, exitCode>>
    /\ UNCHANGED <<inputs, pagePathnames, idx, pages, pi, stdout, annotations>>

\* the forEach over the links of a page ends, the forEach over pages goes on
NextPage ==
    /\ pc = "findBrokenLinks"
    /\ pi <= Len(pages)
    /\ li > Len(pages[pi].linkHrefs)
    /\ pi' = pi + 1
    /\ li' = 1
    /\ UNCHANGED <<inputs, pc, error, pagePathnames, idx, pages, brokenLinks, stdout,
                   annotations, exitCode>>

FindBrokenLinksReturn ==
    /\ pc = "findBrokenLinks"
    /\ pi > Len(pages)
    /\ pc' = "outputResult"
    /\ UNCHANGED <<inputs, error, pagePathnames, idx, pages, pi, li, brokenLinks, stdout,
                   annotations, exitCode>>

OutputResult ==
    /\ pc = "outputResult"
    /\ stdout' = stdout \o Report(brokenLinks)
    /\ annotations' = AnnotationsFor(annotateOutput, pages, brokenLinks)
    /\ exitCode' = ExitCodeAfterOutput(brokenLinks, exitCode)
    /\ pc' = "done"
    /\ UNCHANGED <<inputs, error, pagePathnames, idx, pages, pi, li, brokenLinks>>

----------------------------------------------------------------------------
(* Inputs of the model *)

A(href) == [tag |-> "a", href |-> href, name |-> Undefined, id |-> Undefined]

NamedAnchor(name) == [tag |-> "a", href |-> Undefined, name |-> name, id |-> Undefined]

Heading(id) == [tag |-> "h2", href |-> Undefined, name |-> Undefined, id |-> id]

LinkInputs ==
    { <<"/", "b", "/">>, <<"/", "c", "/">>, <<"c">>,
      <<"#">>, <<"#", "x">>, <<"#", "X">>, <<"#", "%78">>, <<"#", "%zz">>, <<"#", " ">>,
      <<"/", "b", "/", "#", "y">>, <<"/", "c", "/", "#", "x">>,
      <<"https://", "docs.astro.build", ".evil.com", "/", "c", "/">>,
      <<"https://", "example.org", "/", "c", "/", "#", "x">>,
      <<"https://">> }

ElementInputs ==
    { A(l) : l \in LinkInputs }
        \cup { NamedAnchor(<<"x">>), Heading(<<"X">>), Heading(<<" ">>) }

LocInputs ==
    { <<"https://", "docs.astro.build", "/", "a", "/">>,
      <<"https://", "docs.astro.build", "/", "b", "/">>,
      <<"HTTPS://", "DOCS.ASTRO.BUILD", "/", "a", "/">>,
      <<"https://", "docs.astro.build", "/", "a">>,
      <<"https://", "docs.astro.build", ".evil.com", "/", "b", "/">> }

SeqsUpTo(S, n) == UNION { [1..k -> S] : k \in 0..n }

FileA == <<"dist", "/", "a", "/", "index.html">>

FileB == <<"dist", "/", "b", "/", "index.html">>

DocA == << Heading(<<"x">>), A(<<"#", "x">>), A(<<"/", "b", "/", "#", "y">>), A(<<"c">>) >>

DocB == << A(<<"/", "a">>), A(<<"#", "top">>), A(<<"/", "c", "/">>) >>

DocB2 == << Heading(<<"y">>), A(<<"/", "a", "/", "#", "x">>) >>

File(path, doc) == [ p \in {path} |-> doc ]

NoFiles == [ p \in {} |-> <<>> ]

Merge(f, g) == [ p \in DOMAIN f \cup DOMAIN g |-> IF p \in DOMAIN f THEN f[p] ELSE g[p] ]

SourceInputs ==
    { {}, { <<"src", "/", "pages", "/", "a", ".md">>,
            <<"src", "/", "pages", "/", "b", "/", "index.md">> } }

\* many sitemaps over two fixed documents, the second present or not
VarySitemap ==
    /\ \/ sitemapFile = [exists |-> FALSE, locs |-> <<>>]
       \/ \E locs \in SeqsUpTo(LocInputs, MaxLocs) : sitemapFile = [exists |-> TRUE, locs |-> locs]
    /\ htmlFiles \in { Merge(File(FileA, DocA), fb) : fb \in {NoFiles, File(FileB, DocB)} }
    /\ sourceFiles \in SourceInputs

\* many documents for page /a/ under a fixed sitemap
VaryPages ==
    /\ sitemapFile = [exists |-> TRUE, locs |-> << <<"https://", "docs.astro.build", "/", "a", "/">>,
                                                  <<"https://", "docs.astro.build", "/", "b", "/">> >>]
    /\ \E doc \in SeqsUpTo(ElementInputs, MaxElements) :
          htmlFiles = Merge(File(FileA, doc), File(FileB, DocB2))
    /\ sourceFiles = {}

Init ==
    /\ VarySitemap \/ VaryPages
    /\ annotateOutput \in BOOLEAN
    /\ pc = "getPagePathnamesFromSitemap"
    /\ error = "none"
    /\ pagePathnames = <<>>
    /\ idx = 1
    /\ pages = <<>>
    /\ pi = 1
    /\ li = 1
    /\ brokenLinks = <<>>
    /\ stdout = <<>>
    /\ annotations = <<>>
    /\ exitCode = 0

Next ==
    \/ GetPagePathnamesFromSitemap
    \/ ParsePage
    \/ ParsePagesReturn
    \/ CheckLink
    \/ NextPage
    \/ FindBrokenLinksReturn
    \/ OutputResult

Spec == Init /\ [][Next]_vars

----------------------------------------------------------------------------
(* Vocabulary of the properties *)

LoadErrors == {"ENOENT", "Failed to find HTML file"}

LinkErrors == {"TypeError", "URIError"}

\* parsePages has returned the complete index
IndexComplete == pc \in {"findBrokenLinks", "outputResult", "done"} \/ error \in LinkErrors

\* findBrokenLinks has returned
Resolved == pc \in {"outputResult", "done"}

Results == Range(brokenLinks)

Keys == { pages[i].pathname : i \in 1..Len(pages) }

PageAt(key) == Lookup(pages, key)

\* scheme and host of an absolute URL string
OriginOf(href) == <<ParseAbsolute(href).scheme>> \o ParseAbsolute(href).host

\* the path of an absolute URL string, ending with "/"
SlashedPathOf(href) ==
    LET p == ParseAbsolute(href).path
    IN  IF p[Len(p)] = "/" THEN p ELSE p \o <<"/">>

\* link l of page p has been through the callback of findBrokenLinks
Processed(p, l) == Resolved \/ p < pi \/ (p = pi /\ l < li)

----------------------------------------------------------------------------
(* C1 *)

\* C1: no result is emitted for a link that resolves to an origin other than baseUrl's,
\* also when the origin's text begins with the baseUrl string.
C1_NoResultForOtherOrigin == \A r \in Results : OriginOf(r.href) = baseUrl

----------------------------------------------------------------------------
(* C2 *)

\* C2: in every emitted result exactly one of isMissingPage and isMissingHash is true, and
\* isMissingPage is true exactly when the slash-normalized pathname is no key of the index.
C2_ExactlyOneFlag ==
    \A r \in Results :
        /\ r.isMissingPage # r.isMissingHash
        /\ r.isMissingPage <=> SlashedPathOf(r.href) \notin Keys

C2_Witness ==
    /\ Resolved
    /\ \E r \in Results : r.isMissingPage /\ IndexOf(r.href, "#") # 0 /\ ~r.isMissingHash
    /\ \E r \in Results : r.isMissingHash /\ ~r.isMissingPage

----------------------------------------------------------------------------
(* C3 *)

\* the decoded fragment of a checked link, with its "#"; empty when there is none
DecodedFragment(url) ==
    IF Len(url.fragment) = 0 THEN <<>> ELSE <<"#">> \o DecodeURIComponent(url.fragment)

C3_Covered(p, l) ==
    LET url == NewURL(pages[p].linkHrefs[l], pages[p].href)
    IN  /\ Processed(p, l)
        /\ url.ok
        /\ OriginOf(UrlHref(url)) = baseUrl
        /\ SlashedPathOf(UrlHref(url)) \in Keys

\* C3: for a checked internal link whose target page is in the index, a result with
\* isMissingHash is emitted iff the URL has a non-empty fragment and the decoded fragment
\* (with "#") is not, by exact comparison, among the target's hashes.
C3_MissingFragmentExact ==
    \A p \in 1..Len(pages) : \A l \in 1..Len(pages[p].linkHrefs) :
        C3_Covered(p, l) =>
            LET url == NewURL(pages[p].linkHrefs[l], pages[p].href)
                target == PageAt(SlashedPathOf(UrlHref(url)))
            IN  (\E r \in Results : /\ r.page = pages[p].pathname
                                    /\ r.href = UrlHref(url)
                                    /\ r.isMissingHash)
                <=> (/\ Len(url.fragment) > 0
                     /\ DecodedFragment(url) \notin Range(target.hashes))

\* a fragment that differs from an existing anchor only in case is reported, and an
\* empty fragment on the same page is not
C3_Witness ==
    /\ Resolved
    /\ \E r \in Results :
          /\ r.isMissingHash
          /\ \E h \in Range(PageAt(SlashedPathOf(r.href)).hashes) :
                /\ h # DecodeURIComponent(UrlHash(ParseAbsolute(r.href)))
                /\ Lower(h) = Lower(DecodeURIComponent(UrlHash(ParseAbsolute(r.href))))
    /\ \E p \in 1..Len(pages) : \E l \in 1..Len(pages[p].linkHrefs) :
          /\ pages[p].linkHrefs[l] = <<"#">>
          /\ \A r \in Results : r.page = pages[p].pathname => r.href # pages[p].href \o <<"#">>

----------------------------------------------------------------------------
(* C4 *)

\* C4: once the sitemap and every page have loaded, no link aborts the run.
C4_NoLinkAbortsRun == IndexComplete => pc # "error"

----------------------------------------------------------------------------
(* C5 *)

\* the sitemap cannot be read, or a pathname it lists has no rendered artifact
LoadFails ==
    \/ ~sitemapFile.exists
    \/ \E i \in 1..Len(sitemapFile.locs) :
          /\ LocMatches(sitemapFile.locs[i])
          /\ PathJoin(buildOutputDir, LocCapture(sitemapFile.locs[i]), <<"index.html">>)
                \notin DOMAIN htmlFiles

ReportKinds == {"header", "prefixPage", "prefixHash", "summary", "none"}

\* C5: when loading fails the run never enters findBrokenLinks or outputResult and
\* produces no result, no report line and no annotation; it ends as an error.
C5_FatalLoadError ==
    LoadFails =>
        /\ pc \in {"getPagePathnamesFromSitemap", "parsePages", "error"}
        /\ ~(pc = "parsePages" /\ idx > Len(pagePathnames))
        /\ pc = "error" => error \in LoadErrors /\ exitCode = 1
        /\ brokenLinks = <<>>
        /\ annotations = <<>>
        /\ \A i \in 1..Len(stdout) : stdout[i].kind \notin ReportKinds

C5_Witness ==
    /\ pc = "error"
    /\ error = "Failed to find HTML file"
    /\ Len(pages) >= 1

----------------------------------------------------------------------------
(* C6 *)

MatchingLocs == { i \in 1..Len(sitemapFile.locs) : LocMatches(sitemapFile.locs[i]) }

FirstLoc(key) ==
    CHOOSE i \in MatchingLocs :
        /\ LocCapture(sitemapFile.locs[i]) = key
        /\ \A j \in MatchingLocs : LocCapture(sitemapFile.locs[j]) = key => i <= j

----------------------------------------------------------------------------
(* C7 *)

\* C7: the run ends in failure iff findBrokenLinks returned at least one result or a
\* fatal load error occurred.
C7_FailureIffBrokenOrLoadError ==
    pc \in {"done", "error"} =>
        (exitCode # 0 <=> \/ (Resolved /\ Len(brokenLinks) > 0)
                          \/ error \in LoadErrors)

----------------------------------------------------------------------------
(* C8 *)

DomOf(key) == htmlFiles[PageAt(key).htmlFilePath]

\* C8: an <a> element without href causes no result: every result is the resolution of
\* an href attribute some <a> element of its page carries.
C8_NoResultWithoutHref ==
    \A r \in Results :
        \E i \in 1..Len(DomOf(r.page)) :
            /\ DomOf(r.page)[i].tag = "a"
            /\ DomOf(r.page)[i].href # Undefined
            /\ NewURL(DomOf(r.page)[i].href, PageAt(r.page).href).ok
            /\ UrlHref(NewURL(DomOf(r.page)[i].href, PageAt(r.page).href)) = r.href

----------------------------------------------------------------------------
(* C9 *)

PageIndex(key) == CHOOSE i \in 1..Len(pages) : pages[i].pathname = key

\* the resolved hrefs of the links of page p, in insertion order
ResolvedHrefs(p) ==
    [ l \in 1..Len(pages[p].linkHrefs) |->
        IF NewURL(pages[p].linkHrefs[l], pages[p].href).ok
        THEN UrlHref(NewURL(pages[p].linkHrefs[l], pages[p].href))
        ELSE <<>> ]

\* the hrefs of the results of page p, in result order
ResultHrefs(p) ==
    Map(SelectSeq(brokenLinks, LAMBDA r : r.page = pages[p].pathname), LAMBDA r : r.href)

HeaderCount(key) == Len(SelectSeq(stdout, LAMBDA ln : ln.kind = "header" /\ ln.text = key))

\* a second run of the resolver over the same index
RECURSIVE Rerun(_, _, _)
Rerun(p, l, acc) ==
    IF p > Len(pages) THEN acc
    ELSE IF l > Len(pages[p].linkHrefs) THEN Rerun(p + 1, 1, acc)
    ELSE Rerun(p, l + 1,
               PushIfBroken(acc, pages, pages[p], NewURL(pages[p].linkHrefs[l], pages[p].href)))

\* C9: the returned results are in page-major order (pages in index order, within a page
\* the links in insertion order), a second run returns the same sequence, and
\* outputResult prints one header per page that has a broken link.
C9_PageMajorOrder ==
    Resolved =>
        /\ \A i, j \in 1..Len(brokenLinks) :
              i < j => PageIndex(brokenLinks[i].page) <= PageIndex(brokenLinks[j].page)
        /\ \A p \in 1..Len(pages) :
              ResultHrefs(p) = SelectSeq(ResolvedHrefs(p), LAMBDA h : h \in Range(ResultHrefs(p)))
        /\ brokenLinks = Rerun(1, 1, <<>>)
        /\ pc = "done" =>
              \A p \in 1..Len(pages) :
                  HeaderCount(pages[p].pathname) = IF Len(ResultHrefs(p)) > 0 THEN 1 ELSE 0

C9_Witness ==
    /\ pc = "done"
    /\ Len(pages) = 2
    /\ Len(ResultHrefs(1)) = 2
    /\ Len(ResultHrefs(2)) >= 1
    /\ Len(SelectSeq(stdout, LAMBDA ln : ln.kind = "header")) = 2

----------------------------------------------------------------------------
(* C10 *)

WithoutFragment(href) == BeforeFragment(href)

\* the URL of an indexed page, as it is and with the trailing "/" added or removed
OwnUrls(page) ==
    { page.href,
      IF EndsWithSlash(page.href) THEN Take(page.href, Len(page.href) - 1)
      ELSE page.href \o <<"/">> }

\* C10: a link that resolves to the URL of a page of the index, with or without the
\* trailing "/", is never reported as a missing page.
C10_ListedPageNeverMissing ==
    \A r \in Results :
        r.isMissingPage =>
            \A i \in 1..Len(pages) : WithoutFragment(r.href) \notin OwnUrls(pages[i])

====
